---------------------------- MODULE Spec2Model ----------------------------
(***************************************************************************)
(* SeedAlignmentPolicy::parseString (src/aligner_seed_policy.cpp).         *)
(*                                                                         *)
(* A policy string "<tag>=<val>;<tag>=<val>;..." and two flags are turned  *)
(* into 28 output variables.  The outputs are C++ references: they are     *)
(* assigned their baseline first and then overwritten clause by clause.    *)
(*                                                                         *)
(* Strings are TLA+ strings, read character by character.  float values    *)
(* are kept in hundredths (0.66 is 66, 7 is 700).  The characters of the   *)
(* modelled inputs are letters, digits, '-', '.', '=', ',' and ';': no     *)
(* white space and no exponent, and no number long enough to overflow.     *)
(***************************************************************************)
EXTENDS Integers, Sequences, FiniteSets, TLC

VARIABLES
    s,              \* argument: the string to parse
    local,          \* argument: do local alignment
    noisyHpolymer,  \* argument: penalize gaps less
    cxx11,          \* the build: does a failed operator>> store 0 (C++11) or nothing
    prior,          \* what the caller's output variables held when parseString was called
    out,            \* the 28 output variables (references into the caller)
    rest,           \* what istringstream ss has not yet given out
    setting,        \* the 1-based number of the clause read last
    tok,            \* the clause read last
    etoks,          \* tok divided on '='
    ctoks,          \* the value divided on ','
    pre,            \* out as it was when the clause read last was read
    pc,             \* where the invocation is: idle, entry, loop, done, error
    err,            \* which error message was written before the throw
    todo,           \* the invocations the caller has still to make
    hist            \* the invocations that have ended: arguments, outcome, outputs

vars == <<s, local, noisyHpolymer, cxx11, prior, out, rest, setting, tok,
          etoks, ctoks, pre, pc, err, todo, hist>>

-----------------------------------------------------------------------------
(* The model's bound: how many ';'-joined pieces a policy string is built of. *)
MaxClauses == 2

-----------------------------------------------------------------------------
(* aligner_seed_policy.h: the enumerations and the defaults.                *)

COST_MODEL_ROUNDED_QUAL == "COST_MODEL_ROUNDED_QUAL"
COST_MODEL_QUAL == "COST_MODEL_QUAL"
COST_MODEL_CONSTANT == "COST_MODEL_CONSTANT"

SEED_IVAL_LINEAR == "SEED_IVAL_LINEAR"
SEED_IVAL_SQUARE_ROOT == "SEED_IVAL_SQUARE_ROOT"
SEED_IVAL_CUBE_ROOT == "SEED_IVAL_CUBE_ROOT"

DEFAULT_MATCH_BONUS_TYPE == COST_MODEL_CONSTANT
DEFAULT_MATCH_BONUS == 0
DEFAULT_MATCH_BONUS_TYPE_LOCAL == COST_MODEL_CONSTANT
DEFAULT_MATCH_BONUS_LOCAL == 2
DEFAULT_MM_PENALTY_TYPE == COST_MODEL_CONSTANT
DEFAULT_MM_PENALTY == 6
DEFAULT_SNP_PENALTY == 6
DEFAULT_N_PENALTY_TYPE == COST_MODEL_CONSTANT
DEFAULT_N_PENALTY == 1
DEFAULT_MIN_CONST == -60
DEFAULT_MIN_LINEAR == -60
DEFAULT_MIN_CONST_LOCAL == 0
DEFAULT_MIN_LINEAR_LOCAL == 66
DEFAULT_FLOOR_CONST == -100000000
DEFAULT_FLOOR_LINEAR == 0
DEFAULT_FLOOR_CONST_LOCAL == 0
DEFAULT_FLOOR_LINEAR_LOCAL == 0
DEFAULT_N_CEIL_CONST == 0
DEFAULT_N_CEIL_LINEAR == 15
DEFAULT_N_CAT_PAIR == FALSE
DEFAULT_READ_GAP_CONST == 5
DEFAULT_READ_GAP_LINEAR == 3
DEFAULT_REF_GAP_CONST == 5
DEFAULT_REF_GAP_LINEAR == 3
DEFAULT_READ_GAP_CONST_BADHPOLY == 3
DEFAULT_READ_GAP_LINEAR_BADHPOLY == 1
DEFAULT_REF_GAP_CONST_BADHPOLY == 3
DEFAULT_REF_GAP_LINEAR_BADHPOLY == 1
DEFAULT_SEEDMMS == 0
DEFAULT_SEEDLEN == 22
DEFAULT_SEEDPERIOD == -1
DEFAULT_IVAL == SEED_IVAL_SQUARE_ROOT
DEFAULT_IVAL_A == 100
DEFAULT_IVAL_B == 0
DEFAULT_POSMIN == 300
DEFAULT_POSFRAC == 50
DEFAULT_ROWMIN == 400
DEFAULT_ROWMULT == 150

-----------------------------------------------------------------------------
(* <string>, <sstream>: characters, getline and operator>>.                 *)

CharAt(str, i) == SubSeq(str, i, i)

DigitValue ==
    ("0" :> 0) @@ ("1" :> 1) @@ ("2" :> 2) @@ ("3" :> 3) @@ ("4" :> 4) @@
    ("5" :> 5) @@ ("6" :> 6) @@ ("7" :> 7) @@ ("8" :> 8) @@ ("9" :> 9)

IsDigit(c) == c \in DOMAIN DigitValue

(* The index of the first delim in str, or Len(str) + 1 when there is none. *)
RECURSIVE FindFrom(_, _, _)
FindFrom(str, delim, i) ==
    IF i > Len(str) \/ CharAt(str, i) = delim THEN i
    ELSE FindFrom(str, delim, i + 1)

FindChar(str, delim) == FindFrom(str, delim, 1)

(* getline(stream, tok, delim) on a stream that still holds str: it fails   *)
(* when nothing is left; otherwise it gives the characters before the first *)
(* delim and takes the delim out of the stream as well.                     *)
GetLineOk(str) == str /= ""

GetLineTok(str, delim) == SubSeq(str, 1, FindChar(str, delim) - 1)

GetLineRest(str, delim) == SubSeq(str, FindChar(str, delim) + 1, Len(str))

(* while(getline(stream, tok, delim)) list.push_back(tok);                  *)
RECURSIVE SplitOn(_, _)
SplitOn(str, delim) ==
    IF ~GetLineOk(str) THEN <<>>
    ELSE <<GetLineTok(str, delim)>> \o SplitOn(GetLineRest(str, delim), delim)

(* The number of leading digits of str.                                     *)
RECURSIVE DigitRun(_)
DigitRun(str) ==
    IF str /= "" /\ IsDigit(Head(str)) THEN 1 + DigitRun(Tail(str)) ELSE 0

(* The value of a string of digits (0 for the empty string).                *)
RECURSIVE DigitsValue(_)
DigitsValue(str) ==
    IF str = "" THEN 0
    ELSE 10 * DigitsValue(SubSeq(str, 1, Len(str) - 1))
         + DigitValue[CharAt(str, Len(str))]

HasSign(str) == str /= "" /\ Head(str) \in {"-", "+"}

Unsigned(str) == IF HasSign(str) THEN Tail(str) ELSE str

Signed(str, v) == IF str /= "" /\ Head(str) = "-" THEN 0 - v ELSE v

(* istringstream(str) >> x for an int x that holds old.  An empty stream    *)
(* fails in the sentry and stores nothing.  Otherwise an optional sign and  *)
(* the leading digits are read and what follows them is left unread; with   *)
(* no digit the extraction fails, and stores 0 in a C++11 library and       *)
(* nothing in an older one.                                                 *)
ExtractInt(str, old, c11) ==
    LET body == Unsigned(str)
        n    == DigitRun(body)
    IN  IF str = "" THEN old
        ELSE IF n = 0 THEN (IF c11 THEN 0 ELSE old)
        ELSE Signed(str, DigitsValue(SubSeq(body, 1, n)))

(* The hundredths given by the digits after a decimal point.                *)
FracHundredths(digits) ==
    IF Len(digits) = 0 THEN 0
    ELSE IF Len(digits) = 1 THEN 10 * DigitsValue(digits)
    ELSE DigitsValue(SubSeq(digits, 1, 2))

(* istringstream(str) >> x for a float x that holds old, in hundredths:     *)
(* sign, digits, '.', digits, with a digit on at least one side of the '.'. *)
ExtractFloat(str, old, c11) ==
    LET body  == Unsigned(str)
        n     == DigitRun(body)
        after == SubSeq(body, n + 1, Len(body))
        dot   == after /= "" /\ Head(after) = "."
        m     == IF dot THEN DigitRun(Tail(after)) ELSE 0
    IN  IF str = "" THEN old
        ELSE IF n + m = 0 THEN (IF c11 THEN 0 ELSE old)
        ELSE Signed(str, 100 * DigitsValue(SubSeq(body, 1, n))
                         + FracHundredths(SubSeq(after, 2, m + 1)))

-----------------------------------------------------------------------------
(* parseString, lines 227-271: every output is assigned its default,        *)
(* whatever it held.                                                        *)

\* A slip: one assignment of the else branch (line 258) left out.
GapBaselineSkipsOne(o, n) ==
    IF ~n
    THEN [o EXCEPT !.penRdExConst  = DEFAULT_READ_GAP_CONST,
                   !.penRdExLinear = DEFAULT_READ_GAP_LINEAR,
                   !.penRfExConst  = DEFAULT_REF_GAP_CONST,
                   !.penRfExLinear = DEFAULT_REF_GAP_LINEAR]
    ELSE [o EXCEPT !.penRdExConst  = DEFAULT_READ_GAP_CONST_BADHPOLY,
                   !.penRdExLinear = DEFAULT_READ_GAP_LINEAR_BADHPOLY,
                   !.penRfExConst  = DEFAULT_REF_GAP_CONST_BADHPOLY]

\* A slip: the test of line 249 without its negation.
GapBaselineInverted(o, n) ==
    IF n
    THEN [o EXCEPT !.penRdExConst  = DEFAULT_READ_GAP_CONST,
                   !.penRdExLinear = DEFAULT_READ_GAP_LINEAR,
                   !.penRfExConst  = DEFAULT_REF_GAP_CONST,
                   !.penRfExLinear = DEFAULT_REF_GAP_LINEAR]
    ELSE [o EXCEPT !.penRdExConst  = DEFAULT_READ_GAP_CONST_BADHPOLY,
                   !.penRdExLinear = DEFAULT_READ_GAP_LINEAR_BADHPOLY,
                   !.penRfExConst  = DEFAULT_REF_GAP_CONST_BADHPOLY,
                   !.penRfExLinear = DEFAULT_REF_GAP_LINEAR_BADHPOLY]

\* Lines 249-259: the gap penalties, by noisyHpolymer alone.
GapBaseline(o, n) ==
    IF ~n
    THEN [o EXCEPT !.penRdExConst  = DEFAULT_READ_GAP_CONST,
                   !.penRdExLinear = DEFAULT_READ_GAP_LINEAR,
                   !.penRfExConst  = DEFAULT_REF_GAP_CONST,
                   !.penRfExLinear = DEFAULT_REF_GAP_LINEAR]
    ELSE [o EXCEPT !.penRdExConst  = DEFAULT_READ_GAP_CONST_BADHPOLY,
                   !.penRdExLinear = DEFAULT_READ_GAP_LINEAR_BADHPOLY,
                   !.penRfExConst  = DEFAULT_REF_GAP_CONST_BADHPOLY,
                   !.penRfExLinear = DEFAULT_REF_GAP_LINEAR_BADHPOLY]

Baseline(o, l, n) ==
    GapBaseline(
      [o EXCEPT
         !.bonusMatchType    = IF l THEN DEFAULT_MATCH_BONUS_TYPE_LOCAL
                                    ELSE DEFAULT_MATCH_BONUS_TYPE,
         !.bonusMatch        = IF l THEN DEFAULT_MATCH_BONUS_LOCAL
                                    ELSE DEFAULT_MATCH_BONUS,
         !.penMmcType        = DEFAULT_MM_PENALTY_TYPE,
         !.penMmc            = DEFAULT_MM_PENALTY,
         !.penSnp            = DEFAULT_SNP_PENALTY,
         !.penNType          = DEFAULT_N_PENALTY_TYPE,
         !.penN              = DEFAULT_N_PENALTY,
         !.costMinConst      = IF l THEN DEFAULT_MIN_CONST_LOCAL
                                    ELSE DEFAULT_MIN_CONST,
         !.costMinLinear     = IF l THEN DEFAULT_MIN_LINEAR_LOCAL
                                    ELSE DEFAULT_MIN_LINEAR,
         !.costFloorConst    = IF l THEN DEFAULT_FLOOR_CONST_LOCAL
                                    ELSE DEFAULT_FLOOR_CONST,
         !.costFloorLinear   = IF l THEN DEFAULT_FLOOR_LINEAR_LOCAL
                                    ELSE DEFAULT_FLOOR_LINEAR,
         !.nCeilConst        = DEFAULT_N_CEIL_CONST,
         !.nCeilLinear       = DEFAULT_N_CEIL_LINEAR,
         !.nCatPair          = DEFAULT_N_CAT_PAIR,
         !.multiseedMms      = DEFAULT_SEEDMMS,
         !.multiseedLen      = DEFAULT_SEEDLEN,
         !.multiseedPeriod   = DEFAULT_SEEDPERIOD,
         !.multiseedIvalType = DEFAULT_IVAL,
         !.multiseedIvalA    = DEFAULT_IVAL_A,
         !.multiseedIvalB    = DEFAULT_IVAL_B,
         !.posmin            = DEFAULT_POSMIN,
         !.posfrac           = DEFAULT_POSFRAC,
         !.rowmin            = DEFAULT_ROWMIN,
         !.rowmult           = DEFAULT_ROWMULT],
      n)

-----------------------------------------------------------------------------
(* parseString, lines 325-619: what each tag's branch writes.  o is the     *)
(* outputs before the clause, ct the value's sub-tokens (1 to 3, none       *)
(* empty), n the noisyHpolymer flag, c11 the build.                         *)

\* A slip: the MA branch storing into the SNP penalty, as its comment
\* ("Parse SNP penalty", line 333) says.
ApplyMAWritesSnp(o, ct, c11) ==
    [o EXCEPT !.penSnp = ExtractInt(ct[1], @, c11)]

\* MA=xx
ApplyMA(o, ct, c11) ==
    [o EXCEPT !.bonusMatch = ExtractInt(ct[1], @, c11)]

\* SNP=xx
ApplySNP(o, ct, c11) ==
    [o EXCEPT !.penSnp = ExtractInt(ct[1], @, c11)]

\* MMP={Cxx|Q|R}
ApplyMMP(o, ct, c11) ==
    IF Head(ct[1]) = "C"
    THEN [o EXCEPT !.penMmc = ExtractInt(Tail(ct[1]), @, c11),
                   !.penMmcType = COST_MODEL_CONSTANT]
    ELSE IF Head(ct[1]) = "Q"
    THEN [o EXCEPT !.penMmcType = COST_MODEL_QUAL]
    ELSE [o EXCEPT !.penMmcType = COST_MODEL_ROUNDED_QUAL]

\* NP={Cxx|Q|R}
ApplyNP(o, ct, c11) ==
    IF Head(ct[1]) = "C"
    THEN [o EXCEPT !.penN = ExtractInt(Tail(ct[1]), @, c11),
                   !.penNType = COST_MODEL_CONSTANT]
    ELSE IF Head(ct[1]) = "Q"
    THEN [o EXCEPT !.penNType = COST_MODEL_QUAL]
    ELSE [o EXCEPT !.penNType = COST_MODEL_ROUNDED_QUAL]

\* A slip: RDG without the else of line 441, as MIN is written.
ApplyRDGKeepsLinear(o, ct, n, c11) ==
    [o EXCEPT
       !.penRdExConst  = IF Len(ct) >= 1 THEN ExtractInt(ct[1], @, c11) ELSE @,
       !.penRdExLinear = IF Len(ct) >= 2 THEN ExtractInt(ct[2], @, c11) ELSE @]

\* RDG=xx,yy
ApplyRDG(o, ct, n, c11) ==
    [o EXCEPT
       !.penRdExConst  = IF Len(ct) >= 1 THEN ExtractInt(ct[1], @, c11)
                         ELSE IF n THEN DEFAULT_READ_GAP_CONST_BADHPOLY
                         ELSE DEFAULT_READ_GAP_CONST,
       !.penRdExLinear = IF Len(ct) >= 2 THEN ExtractInt(ct[2], @, c11)
                         ELSE IF n THEN DEFAULT_READ_GAP_LINEAR_BADHPOLY
                         ELSE DEFAULT_READ_GAP_LINEAR]

\* A slip: the RFG branch copied from the RDG branch with one name left as
\* it was, so that an omitted second sub-token resets the read-gap linear.
ApplyRFGWritesReadGap(o, ct, n, c11) ==
    IF Len(ct) >= 2
    THEN [o EXCEPT !.penRfExConst  = ExtractInt(ct[1], @, c11),
                   !.penRfExLinear = ExtractInt(ct[2], @, c11)]
    ELSE [o EXCEPT !.penRfExConst  = ExtractInt(ct[1], @, c11),
                   !.penRdExLinear = IF n THEN DEFAULT_REF_GAP_LINEAR_BADHPOLY
                                     ELSE DEFAULT_REF_GAP_LINEAR]

\* RFG=xx,yy
ApplyRFG(o, ct, n, c11) ==
    [o EXCEPT
       !.penRfExConst  = IF Len(ct) >= 1 THEN ExtractInt(ct[1], @, c11)
                         ELSE IF n THEN DEFAULT_REF_GAP_CONST_BADHPOLY
                         ELSE DEFAULT_REF_GAP_CONST,
       !.penRfExLinear = IF Len(ct) >= 2 THEN ExtractInt(ct[2], @, c11)
                         ELSE IF n THEN DEFAULT_REF_GAP_LINEAR_BADHPOLY
                         ELSE DEFAULT_REF_GAP_LINEAR]

\* A slip: MIN guarded so that only the first MIN clause of a string is
\* stored, a later one finding the constant no longer at its default.
ApplyMINFirstWins(o, ct, c11) ==
    IF o.costMinConst \in {DEFAULT_MIN_CONST, DEFAULT_MIN_CONST_LOCAL}
    THEN [o EXCEPT
            !.costMinConst  = IF Len(ct) >= 1 THEN ExtractFloat(ct[1], @, c11) ELSE @,
            !.costMinLinear = IF Len(ct) >= 2 THEN ExtractFloat(ct[2], @, c11) ELSE @]
    ELSE o

\* A slip: MIN with an else that resets, as NCEIL is written.
ApplyMINResetsLinear(o, ct, c11) ==
    [o EXCEPT
       !.costMinConst  = IF Len(ct) >= 1 THEN ExtractFloat(ct[1], @, c11) ELSE @,
       !.costMinLinear = IF Len(ct) >= 2 THEN ExtractFloat(ct[2], @, c11)
                         ELSE DEFAULT_MIN_LINEAR]

\* MIN=xx,yy
ApplyMIN(o, ct, c11) ==
    [o EXCEPT
       !.costMinConst  = IF Len(ct) >= 1 THEN ExtractFloat(ct[1], @, c11) ELSE @,
       !.costMinLinear = IF Len(ct) >= 2 THEN ExtractFloat(ct[2], @, c11) ELSE @]

\* POSF=xx,yy
ApplyPOSF(o, ct, c11) ==
    [o EXCEPT
       !.posmin  = IF Len(ct) >= 1 THEN ExtractFloat(ct[1], @, c11) ELSE @,
       !.posfrac = IF Len(ct) >= 2 THEN ExtractFloat(ct[2], @, c11) ELSE @]

\* ROWM=xx,yy
ApplyROWM(o, ct, c11) ==
    [o EXCEPT
       !.rowmult = IF Len(ct) >= 1 THEN ExtractFloat(ct[1], @, c11) ELSE @,
       !.rowmin  = IF Len(ct) >= 2 THEN ExtractFloat(ct[2], @, c11) ELSE @]

\* FL=xx,yy
ApplyFL(o, ct, c11) ==
    [o EXCEPT
       !.costFloorConst  = IF Len(ct) >= 1 THEN ExtractFloat(ct[1], @, c11) ELSE @,
       !.costFloorLinear = IF Len(ct) >= 2 THEN ExtractFloat(ct[2], @, c11) ELSE @]

\* NCEIL=xx,yy
ApplyNCEIL(o, ct, c11) ==
    [o EXCEPT
       !.nCeilConst  = IF Len(ct) >= 1 THEN ExtractFloat(ct[1], @, c11) ELSE @,
       !.nCeilLinear = IF Len(ct) >= 2 THEN ExtractFloat(ct[2], @, c11)
                       ELSE DEFAULT_N_CEIL_LINEAR]

\* A slip: SEED without the else branches of lines 566 and 572, as MIN is
\* written.
ApplySEEDKeepsOmitted(o, ct, c11) ==
    [o EXCEPT
       !.multiseedMms    = IF Len(ct) >= 1 THEN ExtractInt(ct[1], @, c11) ELSE @,
       !.multiseedLen    = IF Len(ct) >= 2 THEN ExtractInt(ct[2], @, c11) ELSE @,
       !.multiseedPeriod = IF Len(ct) >= 3 THEN ExtractInt(ct[3], @, c11) ELSE @]

\* SEED=mm,len,ival
ApplySEED(o, ct, c11) ==
    [o EXCEPT
       !.multiseedMms    = IF Len(ct) >= 1 THEN ExtractInt(ct[1], @, c11) ELSE @,
       !.multiseedLen    = IF Len(ct) >= 2 THEN ExtractInt(ct[2], @, c11)
                           ELSE DEFAULT_SEEDLEN,
       !.multiseedPeriod = IF Len(ct) >= 3 THEN ExtractInt(ct[3], @, c11)
                           ELSE DEFAULT_SEEDPERIOD]

\* A slip: IVAL without the else branches of lines 609 and 616, as MIN is
\* written.
ApplyIVALKeepsOmitted(o, ct, c11) ==
    [o EXCEPT
       !.multiseedIvalType = IF Len(ct) >= 1 /\ Head(ct[1]) = "L" THEN SEED_IVAL_LINEAR
                             ELSE IF Len(ct) >= 1 /\ Head(ct[1]) = "S"
                                  THEN SEED_IVAL_SQUARE_ROOT
                             ELSE IF Len(ct) >= 1 /\ Head(ct[1]) = "C"
                                  THEN SEED_IVAL_CUBE_ROOT
                             ELSE @,
       !.multiseedIvalA    = IF Len(ct) >= 2 THEN ExtractFloat(ct[2], @, c11) ELSE @,
       !.multiseedIvalB    = IF Len(ct) >= 3 THEN ExtractFloat(ct[3], @, c11) ELSE @]

\* IVAL={L|S|C},a,b
ApplyIVAL(o, ct, c11) ==
    [o EXCEPT
       !.multiseedIvalType = IF Len(ct) >= 1 /\ Head(ct[1]) = "L" THEN SEED_IVAL_LINEAR
                             ELSE IF Len(ct) >= 1 /\ Head(ct[1]) = "S"
                                  THEN SEED_IVAL_SQUARE_ROOT
                             ELSE IF Len(ct) >= 1 /\ Head(ct[1]) = "C"
                                  THEN SEED_IVAL_CUBE_ROOT
                             ELSE @,
       !.multiseedIvalA    = IF Len(ct) >= 2 THEN ExtractFloat(ct[2], @, c11)
                             ELSE 100,
       !.multiseedIvalB    = IF Len(ct) >= 3 THEN ExtractFloat(ct[3], @, c11)
                             ELSE 0]

(* The tags the if/else-if chain of lines 325-619 knows.                    *)
Tags == {"MA", "SNP", "MMP", "NP", "RDG", "RFG", "MIN", "POSF", "ROWM", "FL",
         "NCEIL", "SEED", "IVAL"}

(* The tags whose branch insists on exactly one sub-token.                  *)
OneTokenTags == {"MA", "SNP", "MMP", "NP"}

(* The tags whose sub-token must start with C, Q or R.                      *)
CostModelTags == {"MMP", "NP"}

(* A slip: the chain without its final else, so that a tag no branch knows  *)
(* is passed over.                                                          *)
ClauseErrorNoFinalElse(et, ct) ==
    IF Len(et) /= 2 THEN "must be bisected by = sign"
    ELSE IF Len(ct) = 0 THEN "RHS must have at least 1 token"
    ELSE IF Len(ct) > 3 THEN "RHS must have at most 3 tokens"
    ELSE IF \E i \in 1..Len(ct) : Len(ct[i]) = 0 THEN "token on RHS had length=0"
    ELSE IF et[1] \in {"MA", "SNP", "MMP", "NP"} /\ Len(ct) /= 1
         THEN "RHS must have 1 token"
    ELSE IF et[1] \in {"MMP", "NP"} /\ Head(ct[1]) \notin {"C", "Q", "R"}
         THEN "RHS must start with C, Q or R"
    ELSE "none"

(* Lines 288-322 and the checks of the branches: the error a clause ends    *)
(* in, named after its message, or "none".  et is the clause divided on     *)
(* '=', ct its value divided on ','.                                        *)
ClauseError(et, ct) ==
    IF Len(et) /= 2 THEN "must be bisected by = sign"
    ELSE IF Len(ct) = 0 THEN "RHS must have at least 1 token"
    ELSE IF Len(ct) > 3 THEN "RHS must have at most 3 tokens"
    ELSE IF \E i \in 1..Len(ct) : Len(ct[i]) = 0 THEN "token on RHS had length=0"
    ELSE IF et[1] \in OneTokenTags /\ Len(ct) /= 1 THEN "RHS must have 1 token"
    ELSE IF et[1] \in CostModelTags /\ Head(ct[1]) \notin {"C", "Q", "R"}
         THEN "RHS must start with C, Q or R"
    ELSE IF et[1] \notin Tags THEN "Unexpected alignment policy setting"
    ELSE "none"

(* Lines 325-619: the outputs after the branch of tag tg has run.           *)
ApplyClause(o, tg, ct, n, c11) ==
    CASE tg = "MA"    -> ApplyMA(o, ct, c11)
      [] tg = "SNP"   -> ApplySNP(o, ct, c11)
      [] tg = "MMP"   -> ApplyMMP(o, ct, c11)
      [] tg = "NP"    -> ApplyNP(o, ct, c11)
      [] tg = "RDG"   -> ApplyRDG(o, ct, n, c11)
      [] tg = "RFG"   -> ApplyRFG(o, ct, n, c11)
      [] tg = "MIN"   -> ApplyMIN(o, ct, c11)
      [] tg = "POSF"  -> ApplyPOSF(o, ct, c11)
      [] tg = "ROWM"  -> ApplyROWM(o, ct, c11)
      [] tg = "FL"    -> ApplyFL(o, ct, c11)
      [] tg = "NCEIL" -> ApplyNCEIL(o, ct, c11)
      [] tg = "SEED"  -> ApplySEED(o, ct, c11)
      [] tg = "IVAL"  -> ApplyIVAL(o, ct, c11)
      [] OTHER        -> o

(* One pass of the loop body, lines 279-626, over a clause that does not    *)
(* throw: the branch of its tag has run.                                    *)
LoopBody(o, et, ct, n, c11) == ApplyClause(o, et[1], ct, n, c11)

(* A slip: a branch that writes its outputs before it checks the number of  *)
(* sub-tokens.                                                              *)
LoopBodyWritesThenThrows(o, et, ct, n, c11) ==
    IF Len(et) = 2 /\ Len(ct) \in 1..3 /\ (\A i \in 1..Len(ct) : Len(ct[i]) > 0)
    THEN ApplyClause(o, et[1], ct, n, c11)
    ELSE o

(* One pass of the loop body that throws: every check of a clause comes     *)
(* before the first write of its branch, so the outputs are as they were.   *)
LoopBodyThrows(o, et, ct, n, c11) == o

-----------------------------------------------------------------------------
(* The inputs.                                                              *)

(* What the caller's output variables may hold before a call (main leaves   *)
(* them uninitialized before its first call).                               *)
Stale(v, t, b) ==
    [ bonusMatchType |-> t, bonusMatch |-> v, penMmcType |-> t, penMmc |-> v,
      penSnp |-> v, penNType |-> t, penN |-> v, costMinConst |-> v,
      costMinLinear |-> v, costFloorConst |-> v, costFloorLinear |-> v,
      nCeilConst |-> v, nCeilLinear |-> v, nCatPair |-> b, penRdExConst |-> v,
      penRdExLinear |-> v, penRfExConst |-> v, penRfExLinear |-> v,
      multiseedMms |-> v, multiseedLen |-> v, multiseedPeriod |-> v,
      multiseedIvalType |-> t, multiseedIvalA |-> v, multiseedIvalB |-> v,
      posmin |-> v, posfrac |-> v, rowmin |-> v, rowmult |-> v ]

StaleA == Stale(-7, "stale", TRUE)

StaleB == Stale(12345, "other", FALSE)

(* The pieces joined by ';'.                                                *)
RECURSIVE JoinClauses(_)
JoinClauses(q) ==
    IF Len(q) = 0 THEN ""
    ELSE IF Len(q) = 1 THEN q[1]
    ELSE q[1] \o ";" \o JoinClauses(Tail(q))

(* The pieces that follow the first two of a string.                        *)
TailFragments == {"", "RDG=2", "MIN=7", "XX=1"}

(* Every sequence of at most k pieces: the first two of F, those that       *)
(* follow of TailFragments.                                                 *)
PieceSeqs(F, k) ==
    UNION { IF m <= 2 THEN [1..m -> F]
            ELSE {a \o b : a \in [1..2 -> F], b \in [1..(m - 2) -> TailFragments]} :
            m \in 0..k }

(* Every string of at most k pieces joined by ';'.  The empty piece gives   *)
(* the empty string, a leading or doubled ';' and a trailing ';'.           *)
PoliciesOf(F, k) == {JoinClauses(q) : q \in PieceSeqs(F, k)}

(* The string of main's Case 4.                                             *)
Case4Policy == "MMP=C44;MA=4;RFG=24,12;FL=8;RDG=2;SNP=10;NP=C4;MIN=7"

(* The pieces Spec builds its strings of: the tags with a preserve or a     *)
(* reset rule for an omitted sub-token, and two clauses that throw.         *)
Fragments ==
    { "", "MA=4", "MA=1,2", "XX=1",
      "RDG=9,9", "RDG=2", "RDG=5,", "RFG=24,12", "RFG=2",
      "MIN=1,2", "MIN=7", "FL=1,2", "FL=8",
      "POSF=1,2", "POSF=7", "ROWM=1,2", "ROWM=7" }

(* The pieces SpecGrammar builds its strings of: clauses at the edges of    *)
(* the grammar.                                                             *)
GrammarFragments ==
    { "", "MA=4", "MA", "MA=4=", "MA==", "MA=4=5", "=5", "ma=4", "XX=1",
      "RDG=5,", "RDG=,5", "RDG=5,,6", "SEED=1,2,3,", "SEED=1,2,3,4",
      "MMP=X4", "MMP=Q", "MMP=C", "NP=4", "NP=Cxy",
      "MA=x", "SNP=abc", "RDG=a,b", "SEED=0,zz" }

(* The pieces SpecPair builds its strings of: one clause of every tag, a    *)
(* clause that throws and one whose number does not parse.                  *)
PairFragments ==
    { "MA=4", "SNP=10", "MMP=Q", "NP=C4", "RDG=9,9", "RFG=24", "MIN=7",
      "FL=8", "POSF=7", "ROWM=7", "NCEIL=7", "SEED=2", "IVAL=C",
      "XX=1", "MA=x" }

(* The pieces SpecSeed builds its strings of: NCEIL, SEED and IVAL clauses  *)
(* with every number of sub-tokens, and clauses with more sub-tokens or     *)
(* another interval letter than the comments of lines 14-192 describe.      *)
SeedFragments ==
    { "", "NCEIL=1,2", "NCEIL=7", "NCEIL=1,2,3",
      "SEED=1,10,5", "SEED=1,10", "SEED=2", "SEED=1,2,3,4",
      "IVAL=L,3,4", "IVAL=S,3", "IVAL=C", "IVAL=X", "IVAL=X,3,4",
      "RDG=1,2,3", "MA=1,2" }

(* One call of parseString: its arguments and the caller's variables.       *)
CallOf(str, l, n, p) == [s |-> str, local |-> l, noisyHpolymer |-> n, prior |-> p]

(* One call for every string of P and every pair of flags.                  *)
SingleCalls(P) ==
    { <<CallOf(str, l, n, StaleA)>> : str \in P, l \in BOOLEAN, n \in BOOLEAN }

(* q with its i-th and (i+1)-th pieces exchanged.                           *)
SwapAt(q, i) ==
    [j \in 1..Len(q) |-> IF j = i THEN q[i + 1] ELSE IF j = i + 1 THEN q[i] ELSE q[j]]

(* Two calls one after the other, over two sets of variables that hold      *)
(* different things: the second call is given the string of the first or    *)
(* that string with two neighbouring pieces exchanged, and the same flags.  *)
PairCalls(F, k) ==
    UNION { { <<CallOf(JoinClauses(q), l, n, StaleA),
                CallOf(JoinClauses(r), l, n, StaleB)>> :
                r \in {q} \cup {SwapAt(q, i) : i \in 1..(Len(q) - 1)},
                l \in BOOLEAN, n \in BOOLEAN } :
            q \in PieceSeqs(F, k) }

-----------------------------------------------------------------------------
(* The state machine.                                                       *)

InitWith(T) ==
    /\ todo \in T
    /\ cxx11 \in BOOLEAN
    /\ s = ""
    /\ local = FALSE
    /\ noisyHpolymer = FALSE
    /\ prior = todo[1].prior
    /\ out = todo[1].prior
    /\ rest = ""
    /\ setting = 0
    /\ tok = ""
    /\ etoks = <<>>
    /\ ctoks = <<>>
    /\ pre = todo[1].prior
    /\ pc = "idle"
    /\ err = "none"
    /\ hist = <<>>

Init == InitWith(SingleCalls(PoliciesOf(Fragments, MaxClauses) \cup {Case4Policy}))

InitGrammar == InitWith(SingleCalls(PoliciesOf(GrammarFragments, MaxClauses)))

InitPair == InitWith(PairCalls(PairFragments, MaxClauses))

InitSeed == InitWith(SingleCalls(PoliciesOf(SeedFragments, MaxClauses)))

(* The caller calls parseString: the arguments are bound, the outputs are   *)
(* the caller's variables with whatever they hold.                          *)
Call ==
    /\ pc \in {"idle", "done", "error"}
    /\ todo /= <<>>
    /\ s' = todo[1].s
    /\ local' = todo[1].local
    /\ noisyHpolymer' = todo[1].noisyHpolymer
    /\ prior' = todo[1].prior
    /\ out' = todo[1].prior
    /\ pre' = todo[1].prior
    /\ todo' = Tail(todo)
    /\ hist' = IF pc = "idle" THEN hist
               ELSE Append(hist, [s |-> s, local |-> local,
                                  noisyHpolymer |-> noisyHpolymer,
                                  pc |-> pc, out |-> out])
    /\ rest' = ""
    /\ setting' = 0
    /\ tok' = ""
    /\ etoks' = <<>>
    /\ ctoks' = <<>>
    /\ err' = "none"
    /\ pc' = "entry"
    /\ UNCHANGED cxx11

(* Lines 227-276: the defaults are assigned, ss is made of s.               *)
AssignDefaults ==
    /\ pc = "entry"
    /\ out' = Baseline(out, local, noisyHpolymer)
    /\ pre' = out'
    /\ rest' = s
    /\ setting' = 0
    /\ pc' = "loop"
    /\ UNCHANGED <<s, local, noisyHpolymer, cxx11, prior, tok, etoks, ctoks,
                   err, todo, hist>>

(* The clause the next getline(ss, tok, ';') gives, divided as lines        *)
(* 283-301 divide it.                                                       *)
NextTok == GetLineTok(rest, ";")

NextEtoks == SplitOn(NextTok, "=")

NextCtoks == IF Len(NextEtoks) = 2 THEN SplitOn(NextEtoks[2], ",") ELSE <<>>

(* Lines 278-626: one clause is read and its branch runs to its end.        *)
Clause ==
    /\ pc = "loop"
    /\ GetLineOk(rest)
    /\ ClauseError(NextEtoks, NextCtoks) = "none"
    /\ setting' = setting + 1
    /\ tok' = NextTok
    /\ etoks' = NextEtoks
    /\ ctoks' = NextCtoks
    /\ rest' = GetLineRest(rest, ";")
    /\ pre' = out
    /\ out' = LoopBody(out, NextEtoks, NextCtoks, noisyHpolymer, cxx11)
    /\ UNCHANGED <<s, local, noisyHpolymer, cxx11, prior, pc, err, todo, hist>>

(* A slip: a check that writes its message and does not throw, so that the  *)
(* loop goes on to the next clause.                                         *)
ThrowGoesOn ==
    /\ pc = "loop"
    /\ GetLineOk(rest)
    /\ ClauseError(NextEtoks, NextCtoks) /= "none"
    /\ setting' = setting + 1
    /\ tok' = NextTok
    /\ etoks' = NextEtoks
    /\ ctoks' = NextCtoks
    /\ rest' = GetLineRest(rest, ";")
    /\ pre' = out
    /\ out' = out
    /\ err' = ClauseError(NextEtoks, NextCtoks)
    /\ UNCHANGED <<s, local, noisyHpolymer, cxx11, prior, pc, todo, hist>>

(* Lines 278-626: one clause is read and a check of it throws.              *)
Throw ==
    /\ pc = "loop"
    /\ GetLineOk(rest)
    /\ ClauseError(NextEtoks, NextCtoks) /= "none"
    /\ setting' = setting + 1
    /\ tok' = NextTok
    /\ etoks' = NextEtoks
    /\ ctoks' = NextCtoks
    /\ rest' = GetLineRest(rest, ";")
    /\ pre' = out
    /\ out' = LoopBodyThrows(out, NextEtoks, NextCtoks, noisyHpolymer, cxx11)
    /\ err' = ClauseError(NextEtoks, NextCtoks)
    /\ pc' = "error"
    /\ UNCHANGED <<s, local, noisyHpolymer, cxx11, prior, todo, hist>>

(* Line 278: getline fails at the end of the string and parseString returns. *)
Return ==
    /\ pc = "loop"
    /\ ~GetLineOk(rest)
    /\ pc' = "done"
    /\ UNCHANGED <<s, local, noisyHpolymer, cxx11, prior, out, rest, setting,
                   tok, etoks, ctoks, pre, err, todo, hist>>

Next == Call \/ AssignDefaults \/ Clause \/ Throw \/ Return

Spec == Init /\ [][Next]_vars

SpecGrammar == InitGrammar /\ [][Next]_vars

SpecPair == InitPair /\ [][Next]_vars

SpecSeed == InitSeed /\ [][Next]_vars

-----------------------------------------------------------------------------
(* The claims.  After a clause has been read, tok, etoks and ctoks describe *)
(* it and pre holds the outputs as they were when it was read.              *)

(* The invocation has read at least one clause.                             *)
ClauseRead == pc \in {"loop", "done", "error"} /\ setting >= 1

(* The clause read last was taken: its branch ran and the loop went on.     *)
ClauseTaken == pc \in {"loop", "done"} /\ setting >= 1

(* The tag of the clause read last has n sub-tokens.                        *)
TakenWith(tg, n) == ClauseTaken /\ etoks[1] = tg /\ Len(ctoks) = n

(* C1: parsing the empty string succeeds with no clause processed and       *)
(* leaves every output at the default its flags select: the match bonus,    *)
(* MIN and FL by local, the gap penalties by noisyHpolymer alone, all       *)
(* others fixed.                                                            *)
C1_EmptyStringBaseline ==
    (s = "" /\ pc \in {"loop", "done", "error"}) =>
       /\ pc /= "error"
       /\ setting = 0
       /\ out.bonusMatchType = (IF local THEN DEFAULT_MATCH_BONUS_TYPE_LOCAL
                                ELSE DEFAULT_MATCH_BONUS_TYPE)
       /\ out.bonusMatch = (IF local THEN DEFAULT_MATCH_BONUS_LOCAL
                            ELSE DEFAULT_MATCH_BONUS)
       /\ out.costMinConst = (IF local THEN DEFAULT_MIN_CONST_LOCAL
                              ELSE DEFAULT_MIN_CONST)
       /\ out.costMinLinear = (IF local THEN DEFAULT_MIN_LINEAR_LOCAL
                               ELSE DEFAULT_MIN_LINEAR)
       /\ out.costFloorConst = (IF local THEN DEFAULT_FLOOR_CONST_LOCAL
                                ELSE DEFAULT_FLOOR_CONST)
       /\ out.costFloorLinear = (IF local THEN DEFAULT_FLOOR_LINEAR_LOCAL
                                 ELSE DEFAULT_FLOOR_LINEAR)
       /\ out.penRdExConst = (IF noisyHpolymer THEN DEFAULT_READ_GAP_CONST_BADHPOLY
                              ELSE DEFAULT_READ_GAP_CONST)
       /\ out.penRdExLinear = (IF noisyHpolymer THEN DEFAULT_READ_GAP_LINEAR_BADHPOLY
                               ELSE DEFAULT_READ_GAP_LINEAR)
       /\ out.penRfExConst = (IF noisyHpolymer THEN DEFAULT_REF_GAP_CONST_BADHPOLY
                              ELSE DEFAULT_REF_GAP_CONST)
       /\ out.penRfExLinear = (IF noisyHpolymer THEN DEFAULT_REF_GAP_LINEAR_BADHPOLY
                               ELSE DEFAULT_REF_GAP_LINEAR)
       /\ out.penMmcType = DEFAULT_MM_PENALTY_TYPE
       /\ out.penMmc = DEFAULT_MM_PENALTY
       /\ out.penNType = DEFAULT_N_PENALTY_TYPE
       /\ out.penN = DEFAULT_N_PENALTY
       /\ out.penSnp = DEFAULT_SNP_PENALTY
       /\ out.nCeilConst = DEFAULT_N_CEIL_CONST
       /\ out.nCeilLinear = DEFAULT_N_CEIL_LINEAR
       /\ out.nCatPair = DEFAULT_N_CAT_PAIR
       /\ out.multiseedMms = DEFAULT_SEEDMMS
       /\ out.multiseedLen = DEFAULT_SEEDLEN
       /\ out.multiseedPeriod = DEFAULT_SEEDPERIOD
       /\ out.multiseedIvalType = DEFAULT_IVAL
       /\ out.multiseedIvalA = DEFAULT_IVAL_A
       /\ out.multiseedIvalB = DEFAULT_IVAL_B
       /\ out.posmin = DEFAULT_POSMIN
       /\ out.posfrac = DEFAULT_POSFRAC
       /\ out.rowmin = DEFAULT_ROWMIN
       /\ out.rowmult = DEFAULT_ROWMULT

(* The empty string has been parsed with both flags set, the combination    *)
(* main does not try, over variables that held something else.              *)
C1_Witness ==
    /\ s = "" /\ pc = "done" /\ local /\ noisyHpolymer
    /\ out.penRdExLinear = DEFAULT_READ_GAP_LINEAR_BADHPOLY
    /\ out.costMinLinear = DEFAULT_MIN_LINEAR_LOCAL
    /\ prior.penRdExLinear /= out.penRdExLinear

(* The default noisyHpolymer selects for a gap penalty.                     *)
ByHpolymer(std, bad) == IF noisyHpolymer THEN bad ELSE std

C3_SecondFieldPreserved ==
    /\ TakenWith("MIN", 1) =>
          out = [pre EXCEPT !.costMinConst = ExtractFloat(ctoks[1], @, cxx11)]
    /\ TakenWith("FL", 1) =>
          out = [pre EXCEPT !.costFloorConst = ExtractFloat(ctoks[1], @, cxx11)]
    /\ TakenWith("POSF", 1) =>
          out = [pre EXCEPT !.posmin = ExtractFloat(ctoks[1], @, cxx11)]
    /\ TakenWith("ROWM", 1) =>
          out = [pre EXCEPT !.rowmult = ExtractFloat(ctoks[1], @, cxx11)]
    /\ TakenWith("ROWM", 2) =>
          out = [pre EXCEPT !.rowmult = ExtractFloat(ctoks[1], @, cxx11),
                            !.rowmin = ExtractFloat(ctoks[2], @, cxx11)]

(* 'MIN=1,2;MIN=7' has been parsed and ends with (7, 2).                    *)
C3_Witness ==
    /\ s = "MIN=1,2;MIN=7" /\ pc = "done"
    /\ out.costMinConst = 700 /\ out.costMinLinear = 200
    /\ out.costMinLinear /= Baseline(out, local, noisyHpolymer).costMinLinear

(* How often the character c occurs in str.                                 *)
CountChar(str, c) == Cardinality({i \in 1..Len(str) : CharAt(str, i) = c})

(* C4: every clause that does not contain exactly one '=' makes parseString *)
(* fail.  The code accepts a clause with a second '=' at its end, such as   *)
(* 'MA=4=': getline gives no token for what follows the last delimiter.     *)
C4_NotOneEqualsFails ==
    (ClauseRead /\ CountChar(tok, "=") /= 1) => pc = "error"

(* Cutting val at every ',' gives a piece of length zero.                   *)
EmptyPiece(val) ==
    \E i \in 0..Len(val) :
       /\ i = 0 \/ CharAt(val, i) = ","
       /\ i = Len(val) \/ CharAt(val, i + 1) = ","

(* C5: parseString fails if splitting a clause's value on ',' gives more    *)
(* than 3 sub-tokens or a sub-token of length zero.  The code accepts a     *)
(* comma at the end of the value, such as 'RDG=5,' and 'SEED=1,2,3,'.       *)
C5_BadCommasFail ==
    (/\ ClauseRead
     /\ Len(etoks) = 2
     /\ CountChar(etoks[2], ",") + 1 > 3 \/ EmptyPiece(etoks[2]))
    => pc = "error"

(* The text of a clause before its first '='.                               *)
TagOf(clause) == GetLineTok(clause, "=")

(* C6: a clause whose tag is not one of the thirteen (the empty tag of '=5' *)
(* and a tag in another case included), and an MMP or NP clause whose       *)
(* single sub-token does not start with C, Q or R, ends the parse with an   *)
(* error and writes nothing.                                                *)
C6_UnknownTagOrPrefixFails ==
    /\ (ClauseRead /\ TagOf(tok) \notin
           {"MA", "SNP", "MMP", "NP", "RDG", "RFG", "MIN", "POSF", "ROWM",
            "FL", "NCEIL", "SEED", "IVAL"})
       => (pc = "error" /\ out = pre)
    /\ (/\ ClauseRead
        /\ Len(etoks) = 2
        /\ etoks[1] \in {"MMP", "NP"}
        /\ Len(ctoks) = 1
        /\ Len(ctoks[1]) > 0
        /\ Head(ctoks[1]) \notin {"C", "Q", "R"})
       => (pc = "error" /\ out = pre)

(* '=5' has been read and has ended the parse as an unknown tag.            *)
C6_Witness ==
    /\ pc = "error" /\ tok = "=5" /\ etoks = <<"", "5">>
    /\ err = "Unexpected alignment policy setting"

(* Does istringstream(str) >> x succeed for an int x.                       *)
IntParses(str) == DigitRun(Unsigned(str)) > 0

(* Does istringstream(str) >> x succeed for a float x.                      *)
FloatParses(str) ==
    LET body  == Unsigned(str)
        n     == DigitRun(body)
        after == SubSeq(body, n + 1, Len(body))
    IN  n > 0 \/ (after /= "" /\ Head(after) = "." /\ DigitRun(Tail(after)) > 0)

(* The sub-tokens of ct up to the k-th.                                     *)
FirstTokens(ct, k) == {ct[i] : i \in {j \in 1..Len(ct) : j <= k}}

(* The texts the grammar of tag tg requires to be integers.                 *)
IntTexts(tg, ct) ==
    IF tg \in {"MA", "SNP"} THEN FirstTokens(ct, 1)
    ELSE IF tg \in {"MMP", "NP"}
         THEN (IF Len(ct[1]) > 0 /\ Head(ct[1]) = "C" THEN {Tail(ct[1])} ELSE {})
    ELSE IF tg \in {"RDG", "RFG"} THEN FirstTokens(ct, 2)
    ELSE IF tg = "SEED" THEN FirstTokens(ct, 3)
    ELSE {}

(* The texts the grammar of tag tg requires to be floats.                   *)
FloatTexts(tg, ct) ==
    IF tg \in {"MIN", "POSF", "ROWM", "FL", "NCEIL"} THEN FirstTokens(ct, 2)
    ELSE IF tg = "IVAL" THEN FirstTokens(ct, 3) \ FirstTokens(ct, 1)
    ELSE {}

(* C7: if a sub-token its tag requires to be numeric cannot be parsed as a  *)
(* number, parseString fails.  The code never tests the stream after        *)
(* operator>>: 'MA=x' is taken and the parse goes on.                       *)
C7_NumericFailureFails ==
    (/\ ClauseRead
     /\ Len(etoks) = 2
     /\ Len(ctoks) >= 1
     /\ \/ \E x \in IntTexts(etoks[1], ctoks) : ~IntParses(x)
        \/ \E x \in FloatTexts(etoks[1], ctoks) : ~FloatParses(x))
    => pc = "error"

(* C8, as claimed: after a failure the caller's output variables carry none *)
(* of the writes of this call.                                              *)
C8_FailureLeavesCallerUntouched ==
    pc = "error" => out = prior

(* C8, amended: the clause that fails writes nothing, so after a failure at *)
(* clause k the caller's output variables hold what they held when clause k *)
(* was read: the baseline of this call with the overwrites of clauses 1 to  *)
(* k-1.                                                                     *)
C8_FailingClauseWritesNothing ==
    pc = "error" =>
       /\ out = pre
       /\ setting = 1 => out = Baseline(prior, local, noisyHpolymer)

(* 'MA=4;MA=1,2' has failed at its second clause and the caller sees the    *)
(* match bonus of the first.                                                *)
C8_Witness ==
    /\ s = "MA=4;MA=1,2" /\ pc = "error" /\ setting = 2
    /\ err = "RHS must have 1 token"
    /\ out.bonusMatch = 4
    /\ prior.bonusMatch /= 4
    /\ Baseline(prior, local, noisyHpolymer).bonusMatch /= 4

(* The invocation that has ended before this one.                           *)
Earlier == hist[1]

(* Two invocations have ended and had the same flags.                       *)
BothEnded ==
    /\ pc \in {"done", "error"}
    /\ Len(hist) = 1
    /\ Earlier.local = local
    /\ Earlier.noisyHpolymer = noisyHpolymer

(* Is the clause one the code takes.                                        *)
Taken(clause) ==
    LET et == SplitOn(clause, "=")
    IN  ClauseError(et, IF Len(et) = 2 THEN SplitOn(et[2], ",") ELSE <<>>) = "none"

(* Is b the string a with two neighbouring clauses exchanged, both of them  *)
(* clauses the code takes, with different tags.                             *)
SwapOf(a, b) ==
    LET ca == SplitOn(a, ";")
        cb == SplitOn(b, ";")
    IN  /\ Len(ca) = Len(cb)
        /\ \E i \in 1..(Len(ca) - 1) :
              /\ cb = SwapAt(ca, i)
              /\ Taken(ca[i]) /\ Taken(ca[i + 1])
              /\ TagOf(ca[i]) /= TagOf(ca[i + 1])

(* C9: two clauses with different tags can change places, whatever         *)
(* surrounds them and whatever the flags: if both parses succeed, every     *)
(* output is the same.                                                      *)
C9_DistinctTagsCommute ==
    (BothEnded /\ SwapOf(Earlier.s, s) /\ pc = "done" /\ Earlier.pc = "done")
    => out = Earlier.out

(* 'RDG=9,9;RFG=24' and 'RFG=24;RDG=9,9' have both been parsed.             *)
C9_Witness ==
    /\ BothEnded /\ pc = "done" /\ Earlier.pc = "done"
    /\ Earlier.s = "RDG=9,9;RFG=24" /\ s = "RFG=24;RDG=9,9"
    /\ SwapOf(Earlier.s, s)
    /\ out.penRdExLinear = 9 /\ out.penRfExConst = 24
    /\ out = Earlier.out

(* C10: outcome and outputs are a function of the string and the flags: two *)
(* invocations with the same string and flags, over variables that held     *)
(* different things, end alike, in success or in error, with the same       *)
(* outputs.                                                                 *)
C10_SameInputsSameOutputs ==
    (BothEnded /\ Earlier.s = s) =>
       /\ pc = Earlier.pc
       /\ out = Earlier.out

(* 'MA=x;RFG=24' has been parsed twice, over variables that held different   *)
(* things each time.                                                        *)
C10_Witness ==
    /\ BothEnded /\ Earlier.s = s /\ s = "MA=x;RFG=24" /\ pc = "done"
    /\ prior = StaleB
    /\ out = Earlier.out
    /\ out /= prior

(* The outputs a tag owns.                                                  *)
OwnedFields(tg) ==
    CASE tg = "MA"    -> {"bonusMatch"}
      [] tg = "SNP"   -> {"penSnp"}
      [] tg = "MMP"   -> {"penMmcType", "penMmc"}
      [] tg = "NP"    -> {"penNType", "penN"}
      [] tg = "RDG"   -> {"penRdExConst", "penRdExLinear"}
      [] tg = "RFG"   -> {"penRfExConst", "penRfExLinear"}
      [] tg = "MIN"   -> {"costMinConst", "costMinLinear"}
      [] tg = "POSF"  -> {"posmin", "posfrac"}
      [] tg = "ROWM"  -> {"rowmult", "rowmin"}
      [] tg = "FL"    -> {"costFloorConst", "costFloorLinear"}
      [] tg = "NCEIL" -> {"nCeilConst", "nCeilLinear"}
      [] tg = "SEED"  -> {"multiseedMms", "multiseedLen", "multiseedPeriod"}
      [] tg = "IVAL"  -> {"multiseedIvalType", "multiseedIvalA", "multiseedIvalB"}
      [] OTHER        -> {}

(* The tags of the clauses of str.                                          *)
TagsIn(str) ==
    LET cl == SplitOn(str, ";") IN {TagOf(cl[i]) : i \in 1..Len(cl)}

(* C11: a clause changes only the outputs of its own tag (MA never the      *)
(* match-bonus type, no clause the N-category-pair flag), so after a        *)
(* successful parse every output whose tag does not occur in the string     *)
(* holds its baseline default for the flags.                                *)
C11_FrameEffect ==
    /\ ClauseTaken =>
          \A f \in DOMAIN out \ OwnedFields(etoks[1]) : out[f] = pre[f]
    /\ pc = "done" =>
          \A f \in DOMAIN out :
             (\A tg \in TagsIn(s) : f \notin OwnedFields(tg))
             => out[f] = Baseline(prior, local, noisyHpolymer)[f]

(* 'MA=4;SNP=10' has been parsed with local set: the two values are stored, *)
(* the match-bonus type, the mismatch penalty and the N-category-pair flag  *)
(* are the defaults, over variables that held something else.               *)
C11_Witness ==
    /\ s = "MA=4;SNP=10" /\ pc = "done" /\ local
    /\ out.bonusMatch = 4 /\ out.penSnp = 10
    /\ out.bonusMatchType = DEFAULT_MATCH_BONUS_TYPE_LOCAL
    /\ out.penMmc = DEFAULT_MM_PENALTY
    /\ out.nCatPair = DEFAULT_N_CAT_PAIR
    /\ prior.nCatPair /= DEFAULT_N_CAT_PAIR

(* C12: a clause with a recognized tag is rejected whenever its value has   *)
(* more sub-tokens than its tag allows (1 for MA, SNP, MMP, NP; 2 for RDG,  *)
(* RFG, MIN, FL, NCEIL, POSF, ROWM; 3 for SEED, IVAL) or the first          *)
(* sub-token of IVAL does not begin with L, S or C.  The code takes         *)
(* 'RDG=1,2,3' and passes over the third sub-token, and takes 'IVAL=X' and  *)
(* leaves the interval type as it was.                                      *)
C12_TagTableEnforced ==
    (/\ ClauseRead
     /\ Len(etoks) = 2
     /\ \/ etoks[1] \in {"MA", "SNP", "MMP", "NP"} /\ Len(ctoks) > 1
        \/ /\ etoks[1] \in {"RDG", "RFG", "MIN", "FL", "NCEIL", "POSF", "ROWM"}
           /\ Len(ctoks) > 2
        \/ etoks[1] \in {"SEED", "IVAL"} /\ Len(ctoks) > 3
        \/ /\ etoks[1] = "IVAL"
           /\ Len(ctoks) >= 1
           /\ Len(ctoks[1]) > 0
           /\ Head(ctoks[1]) \notin {"L", "S", "C"})
    => pc = "error"

(* The clauses of str, as the loop of line 278 reads them.                  *)
Clauses(str) == SplitOn(str, ";")

(* The sub-tokens of the value of a clause with one '='.                    *)
ValueTokens(clause) == SplitOn(SplitOn(clause, "=")[2], ",")

(* The sub-tokens of the last clause of str whose tag is tg.                *)
LastValueTokens(str, tg) ==
    LET cl == Clauses(str)
        at == {i \in 1..Len(cl) : TagOf(cl[i]) = tg}
    IN  ValueTokens(cl[CHOOSE i \in at : \A j \in at : j <= i])

(* How many sub-tokens a tag has at most.                                   *)
FullCount(tg) ==
    IF tg \in {"MA", "SNP", "MMP", "NP"} THEN 1
    ELSE IF tg \in {"SEED", "IVAL"} THEN 3
    ELSE 2

(* The number a text that parses stands for.                                *)
IntOf(x) == ExtractInt(x, 0, TRUE)

FloatOf(x) == ExtractFloat(x, 0, TRUE)

(* The cost model, the interval function a letter stands for.               *)
CostModelOf(c) ==
    IF c = "C" THEN COST_MODEL_CONSTANT
    ELSE IF c = "Q" THEN COST_MODEL_QUAL
    ELSE COST_MODEL_ROUNDED_QUAL

IntervalOf(c) ==
    IF c = "L" THEN SEED_IVAL_LINEAR
    ELSE IF c = "S" THEN SEED_IVAL_SQUARE_ROOT
    ELSE SEED_IVAL_CUBE_ROOT

(* The values a clause of tag tg with all its sub-tokens ct supplies, by    *)
(* output.  An MMP or NP clause with Q or R supplies a type and no number.  *)
Supplied(tg, ct) ==
    CASE tg = "MA"    -> [bonusMatch |-> IntOf(ct[1])]
      [] tg = "SNP"   -> [penSnp |-> IntOf(ct[1])]
      [] tg = "MMP"   -> IF Head(ct[1]) = "C"
                         THEN [penMmcType |-> COST_MODEL_CONSTANT,
                               penMmc |-> IntOf(Tail(ct[1]))]
                         ELSE [penMmcType |-> CostModelOf(Head(ct[1]))]
      [] tg = "NP"    -> IF Head(ct[1]) = "C"
                         THEN [penNType |-> COST_MODEL_CONSTANT,
                               penN |-> IntOf(Tail(ct[1]))]
                         ELSE [penNType |-> CostModelOf(Head(ct[1]))]
      [] tg = "RDG"   -> [penRdExConst |-> IntOf(ct[1]),
                          penRdExLinear |-> IntOf(ct[2])]
      [] tg = "RFG"   -> [penRfExConst |-> IntOf(ct[1]),
                          penRfExLinear |-> IntOf(ct[2])]
      [] tg = "MIN"   -> [costMinConst |-> FloatOf(ct[1]),
                          costMinLinear |-> FloatOf(ct[2])]
      [] tg = "POSF"  -> [posmin |-> FloatOf(ct[1]), posfrac |-> FloatOf(ct[2])]
      [] tg = "ROWM"  -> [rowmult |-> FloatOf(ct[1]), rowmin |-> FloatOf(ct[2])]
      [] tg = "FL"    -> [costFloorConst |-> FloatOf(ct[1]),
                          costFloorLinear |-> FloatOf(ct[2])]
      [] tg = "NCEIL" -> [nCeilConst |-> FloatOf(ct[1]),
                          nCeilLinear |-> FloatOf(ct[2])]
      [] tg = "SEED"  -> [multiseedMms |-> IntOf(ct[1]),
                          multiseedLen |-> IntOf(ct[2]),
                          multiseedPeriod |-> IntOf(ct[3])]
      [] tg = "IVAL"  -> [multiseedIvalType |-> IntervalOf(Head(ct[1])),
                          multiseedIvalA |-> FloatOf(ct[2]),
                          multiseedIvalB |-> FloatOf(ct[3])]

(* Does a clause of tag tg with sub-tokens ct supply all of the tag's       *)
(* sub-tokens, every number of them one that parses.                        *)
SuppliesAll(tg, ct) ==
    /\ Len(ct) = FullCount(tg)
    /\ \A x \in IntTexts(tg, ct) : IntParses(x)
    /\ \A x \in FloatTexts(tg, ct) : FloatParses(x)
    /\ tg = "IVAL" => Head(ct[1]) \in {"L", "S", "C"}

(* C13: the clauses are read one at a time in the order of the text, and a  *)
(* later clause of a tag overwrites an earlier one: after a successful      *)
(* parse, the outputs of a tag whose last clause supplies all its           *)
(* sub-tokens hold the values of that last clause, whatever earlier clauses *)
(* of the tag there were.                                                   *)
C13_LastWriteWins ==
    /\ ClauseRead =>
          /\ setting <= Len(Clauses(s))
          /\ tok = Clauses(s)[setting]
    /\ pc = "done" =>
          /\ setting = Len(Clauses(s))
          /\ \A tg \in TagsIn(s) :
                LET ct == LastValueTokens(s, tg)
                    v  == Supplied(tg, ct)
                IN  SuppliesAll(tg, ct) => \A f \in DOMAIN v : out[f] = v[f]

(* 'MIN=7;MIN=1,2' has been parsed: the second clause found (7, default)    *)
(* and the outputs are (1, 2).                                              *)
C13_Witness ==
    /\ s = "MIN=7;MIN=1,2" /\ pc = "done" /\ setting = 2
    /\ pre.costMinConst = 700
    /\ out.costMinConst = 100 /\ out.costMinLinear = 200

(* How many characters of the string the first k clauses of cl and the ';'  *)
(* after each of them take up.                                              *)
RECURSIVE ReadLength(_, _)
ReadLength(cl, k) ==
    IF k = 0 THEN 0 ELSE Len(cl[k]) + 1 + ReadLength(cl, k - 1)

(* The text of str after its first k clauses.                               *)
Unread(str, k) == SubSeq(str, ReadLength(Clauses(str), k) + 1, Len(str))

C16_IntervalFunction ==
    (/\ ClauseTaken
     /\ etoks[1] = "IVAL"
     /\ Head(ctoks[1]) \in {"L", "S", "C"})
    => /\ Head(ctoks[1]) = "L" => out.multiseedIvalType = SEED_IVAL_LINEAR
       /\ Head(ctoks[1]) = "S" => out.multiseedIvalType = SEED_IVAL_SQUARE_ROOT
       /\ Head(ctoks[1]) = "C" => out.multiseedIvalType = SEED_IVAL_CUBE_ROOT
       /\ out.multiseedIvalA =
             (IF Len(ctoks) >= 2
              THEN ExtractFloat(ctoks[2], pre.multiseedIvalA, cxx11)
              ELSE 100)
       /\ out.multiseedIvalB =
             (IF Len(ctoks) >= 3
              THEN ExtractFloat(ctoks[3], pre.multiseedIvalB, cxx11)
              ELSE 0)

(* 'IVAL=L,3,4;IVAL=C' has been parsed: the second clause found linear, 3   *)
(* and 4 and the outputs are cube root, 1.0 and 0.0.                        *)
C16_Witness ==
    /\ s = "IVAL=L,3,4;IVAL=C" /\ pc = "done"
    /\ pre.multiseedIvalType = SEED_IVAL_LINEAR
    /\ pre.multiseedIvalA = 300 /\ pre.multiseedIvalB = 400
    /\ out.multiseedIvalType = SEED_IVAL_CUBE_ROOT
    /\ out.multiseedIvalA = 100 /\ out.multiseedIvalB = 0

=============================================================================
